---- MODULE Spec2Model ----
\* Model of SpSaoPauloSpider (assessorai_crawler/spiders/sp-sao-paulo.py):
\* the page walk start_requests -> parse -> get_next_page_request, the
\* item-count limit and the records emitted to the pipeline.
\*
\* Python values are represented as follows.
\*   None / a value      <<>> / <<v>>            (None, Some)
\*   dict                a function on its keys  (Get models dict.get)
\*   list                a sequence
\*   decimal string      the sequence of its digits  ('100' is <<1, 0, 0>>),
\*                       so that str() and int() are real conversions
\*   other strings       TLA+ strings
\*   response.text       <<"notjson">>, <<"array">> (valid JSON, not an
\*                       object) or <<"object", dict>>
EXTENDS Integers, Sequences, FiniteSets, TLC

\* ---------------------------------------------------------------- bounds
MaxPageLen == 2   \* longest 'data' array a response carries
MaxTotal == 101   \* largest recordsFiltered a response reports
MaxLimit == 2     \* largest -a limit=N given on the command line
MaxSiglaLen == 3  \* longest 'sigla' of a record handed to create_item_from_ajax

\* ------------------------------------------------------ class attributes
items_per_page_ajax == 100
house == "Camara Municipal de Sao Paulo"
uf == <<"S", "P">>
slug == <<"s", "p", "-", "s", "a", "o", "-", "p", "a", "u", "l", "o">>
ajax_url == "https://splegisconsulta.saopaulo.sp.leg.br/Pesquisa/PageDataProjeto"
Origin == "https://splegisconsulta.saopaulo.sp.leg.br"

\* ------------------------------------------------------- Python helpers
None == <<>>
Some(v) == <<v>>

\* dict.get(k, default)
Get(d, k, default) == IF k \in DOMAIN d THEN d[k] ELSE default

\* d[k] = v on a copy of d
Put(d, k, v) == [x \in DOMAIN d \cup {k} |-> IF x = k THEN v ELSE d[x]]

\* str(n) for n >= 0
RECURSIVE StrOf(_)
StrOf(n) == IF n < 10 THEN <<n>> ELSE Append(StrOf(n \div 10), n % 10)

\* int(s) for a non-empty string of digits
RECURSIVE IntOf(_)
IntOf(s) ==
  IF Len(s) = 1 THEN s[1]
  ELSE IntOf(SubSeq(s, 1, Len(s) - 1)) * 10 + s[Len(s)]

\* truth value of an optional string argument: None and '' are false
TruthyStr(a) == a # None /\ a[1] # ""

\* the same for an optional decimal string
TruthyDigits(a) == a # None /\ a[1] # <<>>

\* variant: the limit counts as set whenever it is not None
TruthyInt_not_none(a) == a # None

\* truth value of self.total_items_limit: None and 0 are false
TruthyInt(a) == a # None /\ a[1] # 0

\* --------------------------------------------------------------- inputs
\* -a limit=... : absent, empty, or a decimal string
LimitArgs == {None, Some(<<>>)} \cup {Some(StrOf(n)) : n \in 0..MaxLimit}

\* -a data_inicio=... : absent, empty, or an opaque date
StartDateArgs == {None, Some(""), Some("2024-01-01")}

\* -a data_fim=... : absent or an opaque date
EndDateArgs == {None, Some("2024-12-31")}

\* entries of the 'data' array: two with a process code, one without
RawRecords ==
  { ("codigo" :> "X1") @@ ("natodigital" :> TRUE),
    ("codigo" :> "X2"),
    ("natodigital" :> FALSE) }

RECURSIVE SeqsUpTo(_, _)
SeqsUpTo(S, n) ==
  IF n = 0 THEN {<<>>}
  ELSE LET shorter == SeqsUpTo(S, n - 1)
       IN shorter \cup {Append(s, e) : s \in {t \in shorter : Len(t) = n - 1}, e \in S}

DataArrays == SeqsUpTo(RawRecords, MaxPageLen)

\* values of recordsFiltered: none, exactly one page, and more than one page
Totals == {0, items_per_page_ajax, MaxTotal}

\* decoded JSON objects a response can carry: both keys, or one of them
JsonObjects ==
  {("data" :> d) @@ ("recordsFiltered" :> t) : d \in DataArrays, t \in Totals}
    \cup {("data" :> d) : d \in {a \in DataArrays : Len(a) <= 1}}
    \cup {("recordsFiltered" :> t) : t \in Totals}

\* response.text
Bodies == {<<"notjson">>, <<"array">>} \cup {<<"object", o>> : o \in JsonObjects}

\* ---------------------------------------------------------------- state
VARIABLES
  data_inicio,            \* self.data_inicio
  data_fim,               \* self.data_fim
  total_items_limit,      \* self.total_items_limit
  items_processed_count,  \* self.items_processed_count
  started,                \* start_requests has run
  scheduled,              \* requests yielded to the engine, not yet answered
  emitted,                \* items yielded to the pipeline, in order
  requests_issued,        \* history: number of requests yielded so far
  served,                 \* history: records with a process code delivered so far
  reported,               \* history: recordsFiltered of every page parsed (-1: no object)
  last,                   \* history: input and outcome of the latest parse call
  entry,                  \* record conversion: the entry handed to create_item_from_ajax
  built,                  \* record conversion: None, or Some(what the call returned)
  walkers,                \* several spiders: fields, queue and output of each instance
  counters,               \* several spiders: items_processed_count by owning object
  fed                     \* several spiders, history: responses delivered to each

walk_vars == <<data_inicio, data_fim, total_items_limit, items_processed_count,
               started, scheduled, emitted, requests_issued, served, reported, last>>
item_vars == <<entry, built>>
multi_vars == <<walkers, counters, fed>>
vars == <<walk_vars, item_vars, multi_vars>>

\* the parts of the state a specification does not use stay as they are here
ItemIdle == entry = <<>> /\ built = None
MultiIdle == walkers = <<>> /\ counters = <<>> /\ fed = <<>>

\* ------------------------------------------------------------- __init__
\* self.total_items_limit = int(limit) if limit else None
InitLimit(limit) == IF TruthyDigits(limit) THEN Some(IntOf(limit[1])) ELSE None

Init ==
  /\ data_inicio \in StartDateArgs
  /\ data_fim \in EndDateArgs
  /\ total_items_limit \in {InitLimit(l) : l \in LimitArgs}
  /\ items_processed_count = 0
  /\ started = FALSE
  /\ scheduled = <<>>
  /\ emitted = <<>>
  /\ requests_issued = 0
  /\ served = <<>>
  /\ reported = {}
  /\ last = None
  /\ ItemIdle
  /\ MultiIdle

\* ------------------------------------------------------- start_requests
ParamOrder ==
  <<"draw", "start", "length", "tipo", "somenteEmTramitacao",
    "order[0][column]", "order[0][dir]", "search[value]", "search[regex]",
    "autuacaoI", "autuacaoF">>

\* "&".join(f"{k}={v}" for k, v in params.items()): the pairs in insertion order
QueryString(params) ==
  LET keys == SelectSeq(ParamOrder, LAMBDA k : k \in DOMAIN params)
  IN [i \in 1..Len(keys) |-> <<keys[i], params[keys[i]]>>]

AjaxHeaders ==
  [XRequestedWith |-> "XMLHttpRequest",
   Referer |-> "https://splegisconsulta.saopaulo.sp.leg.br/Pesquisa/IndexProjeto"]

Request(params, headers) ==
  [url |-> <<ajax_url, QueryString(params)>>,
   headers |-> headers,
   callback |-> "parse",
   meta |-> [params_template |-> params]]

\* variant: the second date is filled from the first argument
start_params_swapped(di, df) ==
  LET base == ("draw" :> StrOf(1)) @@ ("start" :> StrOf(0))
                @@ ("length" :> StrOf(items_per_page_ajax))
                @@ ("tipo" :> "1") @@ ("somenteEmTramitacao" :> "false")
                @@ ("order[0][column]" :> "1") @@ ("order[0][dir]" :> "desc")
                @@ ("search[value]" :> "") @@ ("search[regex]" :> "false")
      withI == IF TruthyStr(di) THEN Put(base, "autuacaoI", di[1]) ELSE base
  IN IF TruthyStr(di) THEN Put(withI, "autuacaoF", di[1]) ELSE withI

start_params(di, df) ==
  LET base == ("draw" :> StrOf(1)) @@ ("start" :> StrOf(0))
                @@ ("length" :> StrOf(items_per_page_ajax))
                @@ ("tipo" :> "1") @@ ("somenteEmTramitacao" :> "false")
                @@ ("order[0][column]" :> "1") @@ ("order[0][dir]" :> "desc")
                @@ ("search[value]" :> "") @@ ("search[regex]" :> "false")
      withI == IF TruthyStr(di) THEN Put(base, "autuacaoI", di[1]) ELSE base
  IN IF TruthyStr(df) THEN Put(withI, "autuacaoF", df[1]) ELSE withI

start_requests ==
  /\ ~started
  /\ started' = TRUE
  /\ scheduled' = Append(scheduled, Request(start_params(data_inicio, data_fim), AjaxHeaders))
  /\ requests_issued' = requests_issued + 1
  /\ UNCHANGED <<data_inicio, data_fim, total_items_limit, items_processed_count,
                 emitted, served, reported, last>>
  /\ UNCHANGED <<item_vars, multi_vars>>

\* ------------------------------------------------ create_item_from_ajax
\* hashlib.md5(str(code).encode()).hexdigest(), kept abstract and injective
md5_hex(code) == <<"md5", code>>

\* strings that the item derives character by character are sequences of
\* one-character strings
Whitespace == {" ", "\t"}

\* str.strip()
RECURSIVE lstrip(_)
lstrip(s) == IF s # <<>> /\ Head(s) \in Whitespace THEN lstrip(Tail(s)) ELSE s

RECURSIVE rstrip(_)
rstrip(s) ==
  IF s # <<>> /\ s[Len(s)] \in Whitespace THEN rstrip(SubSeq(s, 1, Len(s) - 1)) ELSE s

strip(s) == rstrip(lstrip(s))

\* str.lower() on the letters that occur
lower_char(c) == IF c = "P" THEN "p" ELSE IF c = "L" THEN "l" ELSE c
lower(s) == [i \in 1..Len(s) |-> lower_char(s[i])]

\* str.replace(' ', '-')
replace_spaces(s) == [i \in 1..Len(s) |-> IF s[i] = " " THEN "-" ELSE s[i]]

\* f"{value}" of an int or of None
DigitChars == <<"0", "1", "2", "3", "4", "5", "6", "7", "8", "9">>
format_value(v) ==
  IF v = None THEN <<"N", "o", "n", "e">>
  ELSE LET digits == StrOf(v[1]) IN [i \in 1..Len(digits) |-> DigitChars[digits[i] + 1]]

\* ajax_data.get(k) without a default: None when the key is absent
GetOpt(d, k) == IF k \in DOMAIN d THEN Some(d[k]) ELSE None

\* variant: the two templates are exchanged
pdf_link_suffix_inverted(ajax_data) ==
  IF Get(ajax_data, "natodigital", FALSE) THEN "?filtroAnexo=1" ELSE "?referidas=true"

\* the query of pdf_link_template, chosen by ajax_data.get('natodigital')
pdf_link_suffix(ajax_data) ==
  IF Get(ajax_data, "natodigital", FALSE) THEN "?referidas=true" ELSE "?filtroAnexo=1"

\* variant: lower-cased only, spaces kept
normalized_type_of_no_replace(type) ==
  IF type # <<>> THEN lower(type) ELSE <<"u", "n", "k", "n", "o", "w", "n">>

\* item['type'].lower().replace(' ', '-') if item['type'] else 'unknown'
normalized_type_of(type) ==
  IF type # <<>> THEN replace_spaces(lower(type)) ELSE <<"u", "n", "k", "n", "o", "w", "n">>

\* scraped_at (the wall clock), title, author and subject are left out
create_item_from_ajax(ajax_data) ==
  LET codigo_processo == Get(ajax_data, "codigo", "")  \* None and '' are both false
  IN IF codigo_processo = "" THEN None
     ELSE LET url == <<Origin, "/ArquivoProcesso/GerarArquivoProcessoPorID/",
                       codigo_processo, pdf_link_suffix(ajax_data)>>
              type == strip(Get(ajax_data, "sigla", <<>>))
              number == GetOpt(ajax_data, "numero")
              year == GetOpt(ajax_data, "ano")
          IN Some([house |-> house,
                   type |-> type,
                   number |-> number,
                   year |-> year,
                   meta |-> [source_json_codigo |-> codigo_processo],
                   url |-> url,
                   uuid |-> md5_hex(codigo_processo),
                   file_urls |-> <<url>>,
                   md_files |-> uf \o <<"/">> \o slug \o <<"/">>
                                  \o normalized_type_of(type) \o <<"-">>
                                  \o format_value(number) \o <<"-">>
                                  \o format_value(year) \o <<".", "m", "d">>])

\* ------------------------------------------------ get_next_page_request
\* variant: 'start' is not assigned on the copy
get_next_page_request_same_start(request, data_json) ==
  LET records_filtered == Get(data_json, "recordsFiltered", 0)
      params_template == request.meta.params_template
      current_start_offset == IntOf(Get(params_template, "start", StrOf(0)))
      next_page_start_offset == current_start_offset + items_per_page_ajax
  IN IF next_page_start_offset < records_filtered
     THEN LET next_draw == StrOf(IntOf(Get(params_template, "draw", StrOf(1))) + 1)
              next_params == Put(params_template, "draw", next_draw)
          IN Some(Request(next_params, request.headers))
     ELSE None

\* variant: the next parameters are built afresh, without the date bounds
get_next_page_request_rebuilt(request, data_json) ==
  LET records_filtered == Get(data_json, "recordsFiltered", 0)
      params_template == request.meta.params_template
      current_start_offset == IntOf(Get(params_template, "start", StrOf(0)))
      next_page_start_offset == current_start_offset + items_per_page_ajax
  IN IF next_page_start_offset < records_filtered
     THEN LET next_draw == StrOf(IntOf(Get(params_template, "draw", StrOf(1))) + 1)
              kept == [k \in DOMAIN params_template \ {"autuacaoI", "autuacaoF"}
                         |-> params_template[k]]
              next_params == Put(Put(kept, "draw", next_draw),
                                 "start", StrOf(next_page_start_offset))
          IN Some(Request(next_params, request.headers))
     ELSE None

\* variant: next_page_start_offset <= records_filtered
get_next_page_request_le(request, data_json) ==
  LET records_filtered == Get(data_json, "recordsFiltered", 0)
      params_template == request.meta.params_template
      current_start_offset == IntOf(Get(params_template, "start", StrOf(0)))
      next_page_start_offset == current_start_offset + items_per_page_ajax
  IN IF next_page_start_offset <= records_filtered
     THEN LET next_draw == StrOf(IntOf(Get(params_template, "draw", StrOf(1))) + 1)
              next_params == Put(Put(params_template, "draw", next_draw),
                                 "start", StrOf(next_page_start_offset))
          IN Some(Request(next_params, request.headers))
     ELSE None

\* variant: 'draw' is copied and not incremented
get_next_page_request_same_draw(request, data_json) ==
  LET records_filtered == Get(data_json, "recordsFiltered", 0)
      params_template == request.meta.params_template
      current_start_offset == IntOf(Get(params_template, "start", StrOf(0)))
      next_page_start_offset == current_start_offset + items_per_page_ajax
  IN IF next_page_start_offset < records_filtered
     THEN LET next_params == Put(params_template, "start", StrOf(next_page_start_offset))
          IN Some(Request(next_params, request.headers))
     ELSE None

get_next_page_request(request, data_json) ==
  LET records_filtered == Get(data_json, "recordsFiltered", 0)
      params_template == request.meta.params_template
      current_start_offset == IntOf(Get(params_template, "start", StrOf(0)))
      next_page_start_offset == current_start_offset + items_per_page_ajax
  IN IF next_page_start_offset < records_filtered
     THEN LET next_draw == StrOf(IntOf(Get(params_template, "draw", StrOf(1))) + 1)
              next_params == Put(Put(params_template, "draw", next_draw),
                                 "start", StrOf(next_page_start_offset))
          IN Some(Request(next_params, request.headers))
     ELSE None

\* response.meta['params_template'] once get_next_page_request has returned:
\* draw and start are assigned on params_template.copy(), not on the template
template_after(request) == request.meta.params_template

\* ---------------------------------------------------------------- parse
\* json.loads(response.text) followed by the first data_json.get
\* variant: a body that does not decode is taken as an empty object
json_loads_lenient(text) ==
  IF text[1] = "notjson" THEN [error |-> "", value |-> [k \in {} |-> 0]]
  ELSE IF text[1] = "array" THEN [error |-> "AttributeError", value |-> <<>>]
  ELSE [error |-> "", value |-> text[2]]

json_loads(text) ==
  IF text[1] = "notjson" THEN [error |-> "JSONDecodeError", value |-> <<>>]
  ELSE IF text[1] = "array" THEN [error |-> "AttributeError", value |-> <<>>]
  ELSE [error |-> "", value |-> text[2]]

\* proposicoes_ajax = data_json.get('data', [])
proposicoes_of(data_json) == Get(data_json, "data", <<>>)

\* variant: the limit test is count > limit
RECURSIVE parse_loop_gt(_, _, _, _, _)
parse_loop_gt(data, i, count, items, limit) ==
  IF i > Len(data) THEN [count |-> count, items |-> items, returned |-> FALSE]
  ELSE IF TruthyInt(limit) /\ count > limit[1]
       THEN [count |-> count, items |-> items, returned |-> TRUE]
       ELSE LET item == create_item_from_ajax(data[i])
            IN parse_loop_gt(data, i + 1, count + 1,
                             IF item = None THEN items ELSE Append(items, item[1]),
                             limit)

\* variant: a record without a code ends the loop ('break' for 'continue')
RECURSIVE parse_loop_break(_, _, _, _, _)
parse_loop_break(data, i, count, items, limit) ==
  IF i > Len(data) THEN [count |-> count, items |-> items, returned |-> FALSE]
  ELSE IF TruthyInt(limit) /\ count >= limit[1]
       THEN [count |-> count, items |-> items, returned |-> TRUE]
       ELSE LET item == create_item_from_ajax(data[i])
            IN IF item = None
               THEN [count |-> count + 1, items |-> items, returned |-> FALSE]
               ELSE parse_loop_break(data, i + 1, count + 1, Append(items, item[1]), limit)

\* the for loop of parse from position i on; returned: left by 'return'
RECURSIVE parse_loop(_, _, _, _, _)
parse_loop(data, i, count, items, limit) ==
  IF i > Len(data) THEN [count |-> count, items |-> items, returned |-> FALSE]
  ELSE IF TruthyInt(limit) /\ count >= limit[1]
       THEN [count |-> count, items |-> items, returned |-> TRUE]
       ELSE LET item == create_item_from_ajax(data[i])
            IN parse_loop(data, i + 1, count + 1,
                          IF item = None THEN items ELSE Append(items, item[1]),
                          limit)

\* variant: the test after the loop is count <= limit
continue_paging_le(limit, count) == ~TruthyInt(limit) \/ count <= limit[1]

\* if not self.total_items_limit or self.items_processed_count < self.total_items_limit
continue_paging(limit, count) == ~TruthyInt(limit) \/ count < limit[1]

\* variant: the next request is yielded inside the loop, once per record
parse_result_yield_in_loop(text, request, count, limit) ==
  LET loaded == json_loads(text)
  IN IF loaded.error # ""
     THEN [error |-> loaded.error, count |-> count, items |-> <<>>,
           returned |-> FALSE, next |-> None,
           template |-> request.meta.params_template]
     ELSE LET loop == parse_loop(proposicoes_of(loaded.value), 1, count, <<>>, limit)
              one == get_next_page_request(request, loaded.value)
          IN [error |-> "", count |-> loop.count, items |-> loop.items,
              returned |-> loop.returned,
              template |-> template_after(request),
              next |-> IF continue_paging(limit, loop.count)
                       THEN [i \in 1..((loop.count - count) * Len(one)) |-> one[1]]
                       ELSE None]

\* variant: an empty page ends the walk
parse_result_stop_on_empty(text, request, count, limit) ==
  LET loaded == json_loads(text)
  IN IF loaded.error # ""
     THEN [error |-> loaded.error, count |-> count, items |-> <<>>,
           returned |-> FALSE, next |-> None,
           template |-> request.meta.params_template]
     ELSE LET loop == parse_loop(proposicoes_of(loaded.value), 1, count, <<>>, limit)
          IN [error |-> "", count |-> loop.count, items |-> loop.items,
              returned |-> loop.returned,
              template |-> template_after(request),
              next |-> IF /\ proposicoes_of(loaded.value) # <<>>
                          /\ ~loop.returned /\ continue_paging(limit, loop.count)
                       THEN get_next_page_request(request, loaded.value)
                       ELSE None]

\* the whole generator, run to exhaustion on one response
parse_result(text, request, count, limit) ==
  LET loaded == json_loads(text)
  IN IF loaded.error # ""
     THEN [error |-> loaded.error, count |-> count, items |-> <<>>,
           returned |-> FALSE, next |-> None,
           template |-> request.meta.params_template]
     ELSE LET loop == parse_loop(proposicoes_of(loaded.value), 1, count, <<>>, limit)
          IN [error |-> "", count |-> loop.count, items |-> loop.items,
              returned |-> loop.returned,
              template |-> template_after(request),
              next |-> IF ~loop.returned /\ continue_paging(limit, loop.count)
                       THEN get_next_page_request(request, loaded.value)
                       ELSE None]

HasCode(r) == "codigo" \in DOMAIN r /\ r["codigo"] # ""

\* records of a response that carry a process code, in array order
ValidRecords(text) ==
  IF text[1] = "object" /\ "data" \in DOMAIN text[2]
  THEN SelectSeq(text[2]["data"], HasCode) ELSE <<>>

ReportedTotal(text) ==
  IF text[1] = "object" THEN Get(text[2], "recordsFiltered", 0) ELSE -1

\* the engine answers the outstanding request with a response and runs the
\* callback on it
parse ==
  /\ scheduled # <<>>
  /\ \E text \in Bodies :
       LET request == Head(scheduled)
           r == parse_result(text, request, items_processed_count, total_items_limit)
       IN /\ items_processed_count' = r.count
          /\ emitted' = emitted \o r.items
          /\ scheduled' = Tail(scheduled) \o r.next
          /\ requests_issued' = requests_issued + Len(r.next)
          /\ served' = served \o ValidRecords(text)
          /\ reported' = reported \cup {ReportedTotal(text)}
          /\ last' = Some([text |-> text, request |-> request,
                           count_before |-> items_processed_count,
                           result |-> r])
  /\ UNCHANGED <<data_inicio, data_fim, total_items_limit, started>>
  /\ UNCHANGED <<item_vars, multi_vars>>

Next == start_requests \/ parse

Spec == Init /\ [][Next]_vars

\* the engine calls start_requests when the spider opens and runs the
\* callback on every response it is delivered
FairSpec == Spec /\ WF_vars(start_requests) /\ WF_vars(parse)

TypeOK ==
  /\ items_processed_count \in Nat
  /\ Len(scheduled) <= 1

\* ------------------------------------------------- record conversion
\* create_item_from_ajax on its own: one entry of a 'data' array, with every
\* combination of the keys the item is derived from, is handed to it once

\* the walk of the first specification, not started and left alone
WalkIdle ==
  /\ data_inicio = None /\ data_fim = None /\ total_items_limit = None
  /\ items_processed_count = 0 /\ started = FALSE /\ scheduled = <<>>
  /\ emitted = <<>> /\ requests_issued = 0 /\ served = <<>>
  /\ reported = {} /\ last = None

SiglaChars == {"P", "L", "l", " ", "\t"}
SiglaStrings == SeqsUpTo(SiglaChars, MaxSiglaLen)

\* a dict with key k when the value is given, empty otherwise
OptEntry(k, v) == IF v = None THEN [x \in {} |-> x] ELSE (k :> v[1])

ItemEntries ==
  { OptEntry("codigo", c) @@ OptEntry("natodigital", n) @@ OptEntry("sigla", sg)
      @@ ("numero" :> nu) @@ ("ano" :> an) :
      c \in {None, Some(""), Some("X1")},
      n \in {None, Some(TRUE), Some(FALSE)},
      sg \in {None} \cup {Some(x) : x \in SiglaStrings},
      nu \in {5, 123},
      an \in {2023, 2024} }

ItemInit ==
  /\ WalkIdle
  /\ MultiIdle
  /\ entry \in ItemEntries
  /\ built = None

\* item = self.create_item_from_ajax(ajax_data, response)
build_item ==
  /\ built = None
  /\ built' = Some(create_item_from_ajax(entry))
  /\ UNCHANGED <<entry, walk_vars, multi_vars>>

ItemNext == build_item

SpecItem == ItemInit /\ [][ItemNext]_vars

\* ------------------------------------------------------ several spiders
\* two SpSaoPauloSpider objects of one process, their callbacks interleaved
\* by the engine in any order
Walkers == {"w1", "w2"}
Owners == Walkers \cup {"class"}

\* variant: the counter is an attribute of the class, shared by the instances
counter_owner_class(w) == "class"

\* the object that holds items_processed_count for instance w:
\* self.items_processed_count = 0 in __init__ binds it on the instance
counter_owner(w) == w

MultiLimits == {None, Some(1), Some(2)}
MultiDates == {None, Some("2024-01-01")}

\* one-record pages, with and without further pages, and a body that does
\* not decode
MultiBodies ==
  {<<"notjson">>}
    \cup {<<"object", ("data" :> d) @@ ("recordsFiltered" :> t)>> :
            d \in {a \in DataArrays : Len(a) = 1}, t \in {0, 2 * items_per_page_ajax}}

MultiInit ==
  /\ WalkIdle
  /\ ItemIdle
  /\ \E limits \in [Walkers -> MultiLimits], dates \in [Walkers -> MultiDates] :
       walkers = [w \in Walkers |->
                    [data_inicio |-> dates[w], data_fim |-> None,
                     total_items_limit |-> limits[w], started |-> FALSE,
                     scheduled |-> <<>>, emitted |-> <<>>, requests_issued |-> 0]]
  /\ counters = [o \in Owners |-> 0]
  /\ fed = [w \in Walkers |-> <<>>]

multi_start_requests(w) ==
  /\ ~walkers[w].started
  /\ walkers' = [walkers EXCEPT
       ![w].started = TRUE,
       ![w].scheduled = Append(@, Request(start_params(walkers[w].data_inicio,
                                                       walkers[w].data_fim), AjaxHeaders)),
       ![w].requests_issued = @ + 1]
  /\ UNCHANGED <<counters, fed, walk_vars, item_vars>>

multi_parse(w) ==
  /\ walkers[w].scheduled # <<>>
  /\ \E text \in MultiBodies :
       LET r == parse_result(text, Head(walkers[w].scheduled),
                             counters[counter_owner(w)], walkers[w].total_items_limit)
       IN /\ counters' = [counters EXCEPT ![counter_owner(w)] = r.count]
          /\ walkers' = [walkers EXCEPT
               ![w].scheduled = Tail(@) \o r.next,
               ![w].emitted = @ \o r.items,
               ![w].requests_issued = @ + Len(r.next)]
          /\ fed' = [fed EXCEPT ![w] = Append(@, text)]
  /\ UNCHANGED <<walk_vars, item_vars>>

MultiNext == \E w \in Walkers : multi_start_requests(w) \/ multi_parse(w)

SpecMulti == MultiInit /\ [][MultiNext]_vars

\* a spider with the fields of wk running alone: after start_requests, and
\* after each of the responses of 'texts' in turn
SoloStart(wk) ==
  [count |-> 0,
   scheduled |-> <<Request(start_params(wk.data_inicio, wk.data_fim), AjaxHeaders)>>,
   emitted |-> <<>>,
   requests_issued |-> 1]

SoloStep(st, text, limit) ==
  LET r == parse_result(text, Head(st.scheduled), st.count, limit)
  IN [count |-> r.count,
      scheduled |-> Tail(st.scheduled) \o r.next,
      emitted |-> st.emitted \o r.items,
      requests_issued |-> st.requests_issued + Len(r.next)]

RECURSIVE SoloRun(_, _)
SoloRun(wk, texts) ==
  IF texts = <<>> THEN SoloStart(wk)
  ELSE SoloStep(SoloRun(wk, SubSeq(texts, 1, Len(texts) - 1)), texts[Len(texts)],
                wk.total_items_limit)

\* ------------------------------------------------- reading the history
Parsed == last # None
LastText == last[1].text
LastResult == last[1].result
LastCountBefore == last[1].count_before
LastParams == last[1].request.meta.params_template
LastStart == IntOf(LastParams["start"])
LastDraw == IntOf(LastParams["draw"])
LastIsObject == Parsed /\ LastText[1] = "object"
LastHasData == LastIsObject /\ "data" \in DOMAIN LastText[2]
LastData == LastText[2]["data"]
LastTotal == IF "recordsFiltered" \in DOMAIN LastText[2] THEN LastText[2]["recordsFiltered"] ELSE 0

\* a limit L >= 1 is set
LimitIsSet == total_items_limit # None /\ total_items_limit[1] >= 1
LimitValue == total_items_limit[1]
LimitReachedAt(count) == LimitIsSet /\ count >= LimitValue

\* the walk is over: the first request was made and none is outstanding
Done == started /\ scheduled = <<>>

CeilDiv(a, b) == (a + b - 1) \div b

\* ------------------------------------------------------------------ C1
\* C1: with a limit L, 1 <= L < page size, the first parse of a fresh walker
\* on a page holding at least L records with a process code emits exactly L
\* items and yields no next-page request.
C1_LimitEnforcement ==
  ( /\ LastHasData
    /\ LimitIsSet /\ LimitValue < items_per_page_ajax
    /\ LastCountBefore = 0 /\ LastStart = 0
    /\ Len(ValidRecords(LastText)) >= LimitValue )
  => /\ Len(LastResult.items) = LimitValue
     /\ LastResult.next = None

\* ------------------------------------------------------------------ C2
\* C2: a parse that the limit does not cut raises the processed count by the
\* number of records emitted, K - M, not by the K records of the page.
C2_SkippedNotCounted ==
  (LastHasData /\ ~LastResult.returned)
  => LastResult.count - LastCountBefore = Len(ValidRecords(LastText))

\* ------------------------------------------------------------------ C3
\* the finished walk had no limit and every page it parsed reported T
FixedTotalWalk(T) == Done /\ total_items_limit = None /\ reported = {T}

\* C3 as stated: with no limit and every response reporting the same total
\* T, the number of requests issued over the walk, the first included, is
\* ceil(T / page size).
C3_PageCountOriginal ==
  \A T \in Totals :
    FixedTotalWalk(T) => requests_issued = CeilDiv(T, items_per_page_ajax)

\* C3 amended: the number of requests is ceil(T / page size) for T >= 1 and
\* one, the initial request alone, for T = 0; T = page size gives one page.
C3_PageCount ==
  \A T \in Totals :
    FixedTotalWalk(T) =>
      /\ requests_issued = IF T = 0 THEN 1 ELSE CeilDiv(T, items_per_page_ajax)
      /\ (T <= items_per_page_ajax => requests_issued = 1)

C3_Witness ==
  /\ FixedTotalWalk(MaxTotal)
  /\ requests_issued = 2

\* ------------------------------------------------------------------ C4
\* C4: a parse that exhausts the array with the limit not reached yields a
\* next request exactly when start + page size < recordsFiltered, whatever
\* the length of the array, and that request has start + page size and
\* draw + 1; otherwise nothing is scheduled.
C4_NextRequestRule ==
  (LastIsObject /\ ~LastResult.returned /\ ~LimitReachedAt(LastResult.count))
  => /\ (LastResult.next # None) <=> (LastStart + items_per_page_ajax < LastTotal)
     /\ scheduled = LastResult.next
     /\ LastResult.next # None =>
          LET next_params == LastResult.next[1].meta.params_template
          IN /\ next_params["start"] = StrOf(LastStart + items_per_page_ajax)
             /\ next_params["draw"] = StrOf(LastDraw + 1)
             /\ IntOf(next_params["start"]) - LastStart = IntOf(next_params["length"])

C4_Witness ==
  /\ LastHasData /\ LastData = <<>>
  /\ LastStart = 0 /\ LastDraw = 1
  /\ LastResult.next # None
  /\ LastResult.next[1].meta.params_template["draw"] = <<2>>
  /\ LastResult.next[1].meta.params_template["start"] = <<1, 0, 0>>

\* ------------------------------------------------------------------ C5
\* C5: once the processed count has reached a limit L >= 1, mid-page or on
\* the last record of a page, no request is outstanding, the parse that
\* reached it yielded none, no step of the walk remains, and a parse of any
\* further response would emit nothing and yield no request.
C5_LimitTerminal ==
  LimitReachedAt(items_processed_count)
  => /\ Parsed
     /\ LastResult.next = None
     /\ scheduled = <<>>
     /\ ~ENABLED Next
     /\ \A text \in Bodies :
          LET r == parse_result(text, last[1].request, items_processed_count,
                                total_items_limit)
          IN r.items = <<>> /\ r.next = None /\ r.count = items_processed_count

\* the limit is reached on the last record of a page that reports more pages
C5_Witness ==
  /\ LimitReachedAt(items_processed_count)
  /\ LastHasData /\ ~LastResult.returned
  /\ LastResult.count > LastCountBefore
  /\ LastStart + items_per_page_ajax < LastTotal

\* ------------------------------------------------------------------ C6
\* C6: with a limit L >= 1 the number of items emitted over the whole walk
\* never exceeds L.
C6_BoundedOutput == LimitIsSet => Len(emitted) <= LimitValue

\* L items were emitted although more records with a code were delivered
C6_Witness ==
  /\ LimitIsSet
  /\ Len(emitted) = LimitValue
  /\ Len(served) > LimitValue

\* ------------------------------------------------------------------ C7
LastLacksData == LastIsObject /\ "data" \notin DOMAIN LastText[2]

C8_UnparseableBody ==
  (Parsed /\ LastText[1] = "notjson")
  => /\ LastResult.error # ""
     /\ LastResult.items = <<>>
     /\ LastResult.next = None
     /\ scheduled = <<>>
     /\ items_processed_count = LastCountBefore

\* the second page does not decode, after a first page that emitted items
C8_Witness ==
  /\ Parsed /\ LastText[1] = "notjson"
  /\ LastStart = items_per_page_ajax
  /\ LastCountBefore > 0
  /\ emitted # <<>>

\* ------------------------------------------------------------------ C9
\* C9: with no limit the items emitted are, one for one and in the same
\* order, the delivered records that carry a process code (page order, then
\* array order); a record without a code gives no item.
C9_OneOutputPerValidRecord ==
  total_items_limit = None
  => /\ Len(emitted) = Len(served)
     /\ \A i \in 1..Len(emitted) :
          emitted[i].meta.source_json_codigo = served[i]["codigo"]

\* two pages, the second with a record without a code before one with a code
C9_Witness ==
  /\ total_items_limit = None
  /\ LastHasData /\ Len(LastData) = 2
  /\ ~HasCode(LastData[1]) /\ HasCode(LastData[2])
  /\ LastStart = items_per_page_ajax
  /\ Len(emitted) = 3
  /\ emitted[1].meta.source_json_codigo # emitted[2].meta.source_json_codigo

\* ----------------------------------------------------------------- C10
\* start_requests has run and no response was parsed yet
JustStarted == started /\ ~Parsed

\* C10: start_requests yields exactly one request, with start 0, draw 1 and
\* length 100, with autuacaoI / autuacaoF only for a date that was given
\* (and always for a non-empty one), and leaves the processed count at 0 and
\* nothing emitted.
C10_InitialRequest ==
  JustStarted
  => /\ Len(scheduled) = 1
     /\ requests_issued = 1
     /\ LET params == scheduled[1].meta.params_template
        IN /\ params["start"] = <<0>>
           /\ params["draw"] = <<1>>
           /\ params["length"] = <<1, 0, 0>>
           /\ "autuacaoI" \in DOMAIN params =>
                data_inicio # None /\ params["autuacaoI"] = data_inicio[1]
           /\ "autuacaoF" \in DOMAIN params =>
                data_fim # None /\ params["autuacaoF"] = data_fim[1]
           /\ (data_inicio # None /\ data_inicio[1] # "") => "autuacaoI" \in DOMAIN params
           /\ (data_fim # None /\ data_fim[1] # "") => "autuacaoF" \in DOMAIN params
           /\ scheduled[1].url = <<ajax_url, QueryString(params)>>
     /\ items_processed_count = 0
     /\ emitted = <<>>

C10_Witness ==
  /\ JustStarted
  /\ data_inicio = Some("2024-01-01")
  /\ data_fim = None
  /\ "autuacaoI" \in DOMAIN scheduled[1].meta.params_template
  /\ "autuacaoF" \notin DOMAIN scheduled[1].meta.params_template

\* ----------------------------------------------------------------- C11
\* C11: every completed parse yields at most one next-page request, and at
\* every point of the walk at most one page request is outstanding.
C11_NoFanOut ==
  /\ Len(scheduled) <= 1
  /\ Parsed => /\ Len(LastResult.next) <= 1
               /\ scheduled = LastResult.next

\* a full page was parsed and exactly one follow-up request is outstanding
C11_Witness ==
  /\ LastHasData /\ Len(LastData) = 2
  /\ Len(LastResult.next) = 1
  /\ Len(scheduled) = 1
  /\ requests_issued = 2

\* ----------------------------------------------------------------- C15
\* C15: a next-page request has the keys of the current request's
\* parameters and the same value for every key but 'draw' and 'start'
\* (length, sort and search directives, date bounds when present), its URL
\* is built from those parameters, it carries the current request's headers,
\* and the current request's parameter record is left as it was.
C15_ParameterFrame ==
  (Parsed /\ LastResult.next # None)
  => LET next_request == LastResult.next[1]
         next_params == next_request.meta.params_template
     IN /\ DOMAIN next_params = DOMAIN LastParams
        /\ \A k \in DOMAIN LastParams \ {"draw", "start"} :
             next_params[k] = LastParams[k]
        /\ next_params["draw"] # LastParams["draw"]
        /\ next_params["start"] # LastParams["start"]
        /\ next_request.url = <<ajax_url, QueryString(next_params)>>
        /\ next_request.headers = last[1].request.headers
        /\ LastResult.template = LastParams

\* both date bounds were given and are carried to the second page
C15_Witness ==
  /\ Parsed /\ LastResult.next # None
  /\ data_inicio = Some("2024-01-01") /\ data_fim = Some("2024-12-31")
  /\ LastResult.next[1].meta.params_template["autuacaoI"] = "2024-01-01"
  /\ LastResult.next[1].meta.params_template["autuacaoF"] = "2024-12-31"
  /\ LastResult.next[1].meta.params_template["length"] = <<1, 0, 0>>

\* ----------------------------------------------------------------- C17
LimitIsZero == total_items_limit = Some(0)

\* C17: with limit 0 no parse is cut by the limit test, the next request
\* follows the rule start + page size < recordsFiltered alone, every
\* delivered record with a code is emitted, and a parse of any response
\* gives what it gives with the limit unset.
C17_ZeroLimitIsUnset ==
  LimitIsZero
  => /\ LastIsObject =>
          /\ ~LastResult.returned
          /\ (LastResult.next # None) <=> (LastStart + items_per_page_ajax < LastTotal)
     /\ Len(emitted) = Len(served)
     /\ \A i \in 1..Len(emitted) :
          emitted[i].meta.source_json_codigo = served[i]["codigo"]
     /\ scheduled # <<>> =>
          \A text \in Bodies :
            parse_result(text, Head(scheduled), items_processed_count, total_items_limit)
              = parse_result(text, Head(scheduled), items_processed_count, None)

\* limit 0: two full pages parsed, four records counted, three items emitted
C17_Witness ==
  /\ LimitIsZero
  /\ LastHasData /\ ~LastResult.returned
  /\ items_processed_count = 4
  /\ Len(emitted) = 3
  /\ requests_issued = 2

\* ----------------------------------------------------------------- C18
\* C18: the processed count starts at 0, no step decreases it, and with a
\* limit L >= 1 it never exceeds L.
C18_CounterRange ==
  /\ items_processed_count = 0
  /\ [][items_processed_count' >= items_processed_count]_vars
  /\ [](LimitIsSet => items_processed_count <= LimitValue)

\* the count stands at L although fewer than L items were emitted
C18_Witness ==
  /\ LimitIsSet
  /\ items_processed_count = LimitValue
  /\ Len(emitted) < items_processed_count
  /\ LastCountBefore < items_processed_count

\* ----------------------------------------------------------------- C16
ScheduledStart == IntOf(scheduled[1].meta.params_template["start"])

\* C16: when every response is delivered, the walk ends for any limit
\* setting: from some point on the first request was made and none is
\* outstanding; and each page advance raises the start offset by exactly
\* the page size, so no offset is requested twice.
C16_Termination ==
  /\ <>[]Done
  /\ [][(scheduled # <<>> /\ scheduled' # <<>>)
          => ScheduledStart' = ScheduledStart + items_per_page_ajax]_vars

\* the walk advanced to the second page and ended there
C16_Witness ==
  /\ Done
  /\ Parsed /\ LastStart = items_per_page_ajax
  /\ requests_issued = 2

\* ----------------------------------------------------------------- C13
\* create_item_from_ajax has returned an item for the entry
ItemBuilt == built # None /\ built[1] # None
BuiltItem == built[1][1]
EntryIsDigital == "natodigital" \in DOMAIN entry /\ entry["natodigital"]

\* C13: an entry with a non-empty process code gives an item whose URL is
\* the origin, the download path and the code, ending in 'referidas=true'
\* when natodigital is true and in 'filtroAnexo=1' when it is false or
\* absent, and whose file_urls holds that URL alone; an entry without a
\* code gives no item.
C13_UrlSelection ==
  built # None
  => /\ ItemBuilt <=> HasCode(entry)
     /\ ItemBuilt =>
          /\ BuiltItem.url =
               <<Origin, "/ArquivoProcesso/GerarArquivoProcessoPorID/", entry["codigo"],
                 IF EntryIsDigital THEN "?referidas=true" ELSE "?filtroAnexo=1">>
          /\ BuiltItem.file_urls = <<BuiltItem.url>>

\* an entry with a code and natodigital false
C13_Witness ==
  /\ ItemBuilt
  /\ "natodigital" \in DOMAIN entry /\ ~entry["natodigital"]
  /\ BuiltItem.url[4] = "?filtroAnexo=1"

\* ----------------------------------------------------------------- C14
EntrySigla == IF "sigla" \in DOMAIN entry THEN entry["sigla"] ELSE <<>>

\* the t of a trimmed type code: 'unknown' when empty, else lower case
\* with a hyphen for each space
ExpectedType(trimmed) ==
  IF trimmed = <<>> THEN <<"u", "n", "k", "n", "o", "w", "n">>
  ELSE [i \in 1..Len(trimmed) |->
          CASE trimmed[i] = " " -> "-"
            [] trimmed[i] = "P" -> "p"
            [] trimmed[i] = "L" -> "l"
            [] OTHER -> trimmed[i]]

\* trimmed is s without its leading and trailing whitespace
TrimmedOf(s, trimmed) ==
  \E a, b \in 0..Len(s) :
    /\ a + b <= Len(s)
    /\ trimmed = SubSeq(s, a + 1, Len(s) - b)
    /\ \A i \in 1..a : s[i] \in Whitespace
    /\ \A i \in (Len(s) - b + 1)..Len(s) : s[i] \in Whitespace
    /\ trimmed # <<>> => (trimmed[1] \notin Whitespace /\ trimmed[Len(trimmed)] \notin Whitespace)

PathPrefix ==
  <<"S", "P", "/", "s", "p", "-", "s", "a", "o", "-", "p", "a", "u", "l", "o", "/">>

NumberChars(n) ==
  CASE n = 5 -> <<"5">> [] n = 123 -> <<"1", "2", "3">>
    [] n = 2023 -> <<"2", "0", "2", "3">> [] n = 2024 -> <<"2", "0", "2", "4">>

\* C14: the storage path of an item is 'SP/sp-sao-paulo/{t}-{number}-{year}.md',
\* t being the type code without surrounding whitespace, lower-cased, each
\* inner space a hyphen, and 'unknown' when nothing is left; 'PL ' and 'Pl'
\* with number 123 and year 2024 give 'pl-123-2024.md'.
C14_PathNormalization ==
  ItemBuilt
  => /\ TrimmedOf(EntrySigla, BuiltItem.type)
     /\ BuiltItem.md_files =
          PathPrefix \o ExpectedType(BuiltItem.type) \o <<"-">>
            \o NumberChars(entry["numero"]) \o <<"-">>
            \o NumberChars(entry["ano"]) \o <<".", "m", "d">>
     /\ ( /\ EntrySigla \in {<<"P", "L", " ">>, <<"P", "l">>}
          /\ entry["numero"] = 123 /\ entry["ano"] = 2024 )
        => BuiltItem.md_files =
             PathPrefix \o <<"p", "l", "-", "1", "2", "3", "-", "2", "0", "2", "4", ".", "m", "d">>

\* a type code with upper-case letters and an inner space
C14_Witness ==
  /\ ItemBuilt
  /\ EntrySigla = <<"P", " ", "L">>
  /\ entry["numero"] = 5
  /\ BuiltItem.md_files =
       PathPrefix \o <<"p", "-", "l", "-", "5", "-">> \o NumberChars(entry["ano"])
         \o <<".", "m", "d">>

\* ----------------------------------------------------------------- C12
\* what instance w can observe of itself
View(w) ==
  [count |-> counters[counter_owner(w)],
   scheduled |-> walkers[w].scheduled,
   emitted |-> walkers[w].emitted,
   requests_issued |-> walkers[w].requests_issued]

\* C12: with the steps of several instances interleaved, the counter, the
\* outstanding request (offset and draw), the items and the number of
\* requests of each instance are those of the same instance running alone
\* on the responses it received, and a step of one instance leaves those of
\* the others unchanged.
C12_InstanceIsolation ==
  /\ [](\A w \in Walkers :
          IF walkers[w].started THEN View(w) = SoloRun(walkers[w], fed[w])
          ELSE View(w) = [count |-> 0, scheduled |-> <<>>, emitted |-> <<>>,
                          requests_issued |-> 0])
  /\ [][\A w \in Walkers :
          (fed'[w] = fed[w] /\ walkers'[w].started = walkers[w].started)
            => View(w)' = View(w)]_vars

\* both instances have a second page outstanding, after interleaved parses
\* that counted one record each and gave an item to the first only
C12_Witness ==
  /\ \A w \in Walkers : Len(fed[w]) = 1 /\ Len(walkers[w].scheduled) = 1
  /\ counters["w1"] = 1 /\ counters["w2"] = 1
  /\ walkers["w1"].emitted # <<>> /\ walkers["w2"].emitted = <<>>
  /\ walkers["w1"].total_items_limit = Some(2)
====
